---- MODULE Spec2Model ----
(***************************************************************************)
(* Model of the S-CORE docs-as-code metamodel extension:                   *)
(*   score_metamodel/__init__.py  check registry, filter, _run_checks,     *)
(*                                link postprocessing                      *)
(*   score_metamodel/sn_schemas.py  schema emitter                         *)
(* Strings are sequences of one-character strings, so that splitting,      *)
(* trimming and prefix tests are computed as the code computes them.       *)
(***************************************************************************)
EXTENDS Integers, Sequences, FiniteSets, TLC

VARIABLES
    local_checks,            \* module-level list local_checks
    graph_checks,            \* module-level list graph_checks
    needs_types,             \* app.config.needs_types (mutated in place)
    needs,                   \* SphinxNeedsData(app.env).get_needs_view()
    score_metamodel_checks,  \* app.config.score_metamodel_checks
    pc,                      \* position of the host / of _run_checks
    run,                     \* number of _run_checks invocations started
    exception,               \* the exception argument of the current run
    fault,                   \* what aborted the current run
    checks_filter,           \* local checks_filter of _run_checks
    k,                       \* loop position inside the current phase
    log,                     \* the CheckLogger of the current run
    calls,                   \* check invocations of the current run
    emitted,                 \* summaries emitted by the current run
    errors,                  \* logger.error lines
    assert_msg,              \* names listed by the failed filter assertion
    prev,                    \* outcome of the previous run
    schemas,                 \* schema_definitions["schemas"]
    loaded_types,            \* the need types as the loader built them
    data,                    \* the parsed metamodel.yaml
    config,                  \* app.config as the source code linker sees it
    listeners,               \* the listeners connected with app.connect
    scl_cache_json,          \* score_source_code_linker_cache.json exists
    setups                   \* the setup() calls of the source code linker

\* the state of the source code linker extension
linker_vars == <<config, listeners, scl_cache_json, setups>>

vars == <<local_checks, graph_checks, needs_types, needs,
          score_metamodel_checks, pc, run, exception, fault, checks_filter,
          k, log, calls, emitted, errors, assert_msg, prev, schemas,
          loaded_types, data, linker_vars>>

(***************************************************************************)
(* Bounds                                                                  *)
(***************************************************************************)
MaxChecks == 2        \* registered checks, local and graph together
MaxNeeds == 2         \* needs in the needs view
MaxRuns == 2          \* invocations of _run_checks in one process
MaxFilterParts == 2   \* comma-separated parts of the filter string
MaxLinkParts == 2     \* comma-separated parts of a link specifier
MaxTypes == 2         \* type declarations in metamodel.yaml
MaxSetups == 3        \* setup() calls of the source code linker

(***************************************************************************)
(* Strings                                                                 *)
(***************************************************************************)
RECURSIVE lstrip(_)
lstrip(s) ==
    IF s # <<>> /\ Head(s) = " " THEN lstrip(Tail(s)) ELSE s

RECURSIVE rstrip(_)
rstrip(s) ==
    IF s # <<>> /\ s[Len(s)] = " " THEN rstrip(SubSeq(s, 1, Len(s) - 1)) ELSE s

strip(s) == rstrip(lstrip(s))

RECURSIVE split(_)
split(s) ==
    IF \E i \in 1..Len(s) : s[i] = ","
    THEN LET i == CHOOSE i \in 1..Len(s) :
                      s[i] = "," /\ \A j \in 1..(i - 1) : s[j] # ","
         IN  <<SubSeq(s, 1, i - 1)>> \o split(SubSeq(s, i + 1, Len(s)))
    ELSE <<s>>

startswith(s, c) == s # <<>> /\ Head(s) = c

RECURSIVE join(_)
join(parts) ==
    IF Len(parts) = 1 THEN parts[1]
    ELSE parts[1] \o <<",">> \o join(Tail(parts))

Range(f) == {f[x] : x \in DOMAIN f}

RECURSIVE SelectIdx(_, _, _)
\* the indices i of seq, ascending, for which keep[i] holds
SelectIdx(n, keep, from) ==
    IF from > n THEN <<>>
    ELSE (IF keep[from] THEN <<from>> ELSE <<>>) \o SelectIdx(n, keep, from + 1)

(***************************************************************************)
(* Inputs                                                                  *)
(***************************************************************************)
\* a check function: its __name__ and what it does when invoked
CheckFns ==
    { [name |-> <<"a">>, effect |-> "warning"],
      [name |-> <<"a">>, effect |-> "ok"],
      [name |-> <<"b">>, effect |-> "info"],
      [name |-> <<"b">>, effect |-> "raise"] }

FilterTokens == {<<"a">>, <<" ", "b">>}
\* the empty filter and the lists of up to MaxFilterParts names
FilterStrings ==
    {<<>>} \cup
    {join(p) : p \in UNION {[1..n -> FilterTokens] : n \in 1..MaxFilterParts}}

NeedsViews ==
    UNION { { [i \in 1..n |-> [id |-> i, is_external |-> e[i]]] :
                e \in [1..n -> BOOLEAN] } : n \in 0..MaxNeeds }

(***************************************************************************)
(* Need types and link resolution                                          *)
(***************************************************************************)
\* iteration order of the keys of a link dict
LinkNameOrder == <<"satisfies", "relates">>

DictKeys(d) == SelectSeq(LinkNameOrder, LAMBDA n : n \in DOMAIN d)

\* a link dict value: the raw specifier string or the resolved list
RawValue(s) == [kind |-> "str", str |-> s, list |-> <<>>]
ListValue(l) == [kind |-> "list", str |-> <<>>, list |-> l]

\* an entry of a resolved list: a regex kept as-is, or the need type object
\* (the position of that object in needs_types)
PatEntry(s) == [kind |-> "pat", pat |-> s, ref |-> 0]
RefEntry(i) == [kind |-> "ref", pat |-> <<>>, ref |-> i]

\* keys: the keys the type dict has; a dict of an absent key is empty
NeedType(d, keys, ml, ol) ==
    [directive |-> d, keys |-> keys, prefix |-> d \o <<"_", "_">>,
     mandatory_options |-> <<>>, optional_options |-> <<>>,
     mandatory_links |-> IF "mandatory_links" \in keys THEN ml ELSE <<>>,
     optional_links |-> IF "optional_links" \in keys THEN ol ELSE <<>>]

BothKeys == {"mandatory_links", "optional_links"}

\* needs_types_dict = {nt["directive"]: nt for nt in needs_types}:
\* a later type with the same directive replaces an earlier one
needs_types_dict(types) ==
    [d \in {types[i].directive : i \in DOMAIN types} |->
        CHOOSE i \in DOMAIN types :
            /\ types[i].directive = d
            /\ \A j \in DOMAIN types : types[j].directive = d => j <= i]

\* mutant: every resolved entry is put in front of the list
RECURSIVE resolve_entries_prepended(_, _, _, _)
resolve_entries_prepended(link_name, link_values, current_need_type, types) ==
    IF link_values = <<>> THEN [types |-> <<>>, errors |-> <<>>]
    ELSE LET v == Head(link_values)
             rest == resolve_entries_prepended(link_name, Tail(link_values),
                                               current_need_type, types)
             dict == needs_types_dict(types)
         IN  IF startswith(v, "^")
             THEN [types |-> rest.types \o <<[kind |-> "pat", pat |-> v,
                                              ref |-> 0]>>,
                   errors |-> rest.errors]
             ELSE IF v \notin DOMAIN dict
             THEN [types |-> rest.types,
                   errors |-> <<[directive |-> current_need_type.directive,
                                 link |-> link_name, unknown |-> v]>>
                              \o rest.errors]
             ELSE [types |-> rest.types \o <<[kind |-> "ref", pat |-> <<>>,
                                              ref |-> dict[v]]>>,
                   errors |-> rest.errors]

RECURSIVE resolve_entries(_, _, _, _)
\* the loop over link_values of _resolve_linkable_types
resolve_entries(link_name, link_values, current_need_type, types) ==
    IF link_values = <<>> THEN [types |-> <<>>, errors |-> <<>>]
    ELSE LET v == Head(link_values)
             rest == resolve_entries(link_name, Tail(link_values),
                                     current_need_type, types)
             dict == needs_types_dict(types)
         IN  IF startswith(v, "^")
             THEN [types |-> <<PatEntry(v)>> \o rest.types,
                   errors |-> rest.errors]
             ELSE IF v \notin DOMAIN dict
             THEN [types |-> rest.types,
                   errors |-> <<[directive |-> current_need_type.directive,
                                 link |-> link_name, unknown |-> v]>>
                              \o rest.errors]
             ELSE [types |-> <<RefEntry(dict[v])>> \o rest.types,
                   errors |-> rest.errors]

strip_all(parts) == [i \in DOMAIN parts |-> strip(parts[i])]

\* mutant: the entries are not trimmed
_resolve_linkable_types_untrimmed(link_name, value, current_need_type, types) ==
    resolve_entries(link_name, split(value), current_need_type, types)

_resolve_linkable_types(link_name, value, current_need_type, types) ==
    resolve_entries(link_name, strip_all(split(value)), current_need_type,
                    types)

RECURSIVE resolve_link_dict(_, _, _, _)
\* for link_name, link_value in link_dict.items(): assert, then replace
resolve_link_dict(link_dict, names, need_type, types) ==
    IF names = <<>> THEN [ok |-> TRUE, dict |-> link_dict, errors |-> <<>>]
    ELSE LET n == Head(names)
         IN  IF link_dict[n].kind # "str"
             THEN [ok |-> FALSE, dict |-> link_dict, errors |-> <<>>]
             ELSE LET r == _resolve_linkable_types(n, link_dict[n].str,
                                                   need_type, types)
                      d == [link_dict EXCEPT ![n] = ListValue(r.types)]
                      rest == resolve_link_dict(d, Tail(names), need_type,
                                                types)
                  IN  [ok |-> rest.ok, dict |-> rest.dict,
                       errors |-> r.errors \o rest.errors]

\* mutant: the link dicts are resolved whether or not both keys are there
postprocess_need_type_any_key(types, i) ==
    LET need_type == types[i]
        m == resolve_link_dict(need_type.mandatory_links,
                 DictKeys(need_type.mandatory_links), need_type, types)
        t1 == [types EXCEPT ![i].mandatory_links = m.dict]
    IN  IF ~m.ok
        THEN [ok |-> FALSE, types |-> t1, errors |-> m.errors]
        ELSE LET o == resolve_link_dict(need_type.optional_links,
                          DictKeys(need_type.optional_links), need_type, t1)
             IN  [ok |-> o.ok,
                  types |-> [t1 EXCEPT ![i].optional_links = o.dict],
                  errors |-> m.errors \o o.errors]

\* mutant: only the types up to the current one are known as link targets
postprocess_need_type_declared_before(types, i) ==
    LET need_type == types[i]
        known == SubSeq(types, 1, i)
    IN  IF ~(BothKeys \subseteq need_type.keys)
        THEN [ok |-> TRUE, types |-> types, errors |-> <<>>]
        ELSE LET m == resolve_link_dict(need_type.mandatory_links,
                          DictKeys(need_type.mandatory_links), need_type,
                          known)
                 t1 == [types EXCEPT ![i].mandatory_links = m.dict]
             IN  IF ~m.ok
                 THEN [ok |-> FALSE, types |-> t1, errors |-> m.errors]
                 ELSE LET o == resolve_link_dict(need_type.optional_links,
                                   DictKeys(need_type.optional_links),
                                   need_type, known)
                      IN  [ok |-> o.ok,
                           types |-> [t1 EXCEPT ![i].optional_links = o.dict],
                           errors |-> m.errors \o o.errors]

\* the body of the loop of postprocess_need_links for the type at position i
postprocess_need_type(types, i) ==
    LET need_type == types[i]
    IN  IF ~(BothKeys \subseteq need_type.keys)
        THEN [ok |-> TRUE, types |-> types, errors |-> <<>>]
        ELSE LET m == resolve_link_dict(need_type.mandatory_links,
                          DictKeys(need_type.mandatory_links), need_type,
                          types)
                 t1 == [types EXCEPT ![i].mandatory_links = m.dict]
             IN  IF ~m.ok
                 THEN [ok |-> FALSE, types |-> t1, errors |-> m.errors]
                 ELSE LET o == resolve_link_dict(need_type.optional_links,
                                   DictKeys(need_type.optional_links),
                                   need_type, t1)
                      IN  [ok |-> o.ok,
                           types |-> [t1 EXCEPT ![i].optional_links = o.dict],
                           errors |-> m.errors \o o.errors]

RECURSIVE postprocess_from(_, _)
postprocess_from(types, i) ==
    IF i > Len(types) THEN [ok |-> TRUE, types |-> types, errors |-> <<>>]
    ELSE LET r == postprocess_need_type(types, i)
         IN  IF ~r.ok THEN r
             ELSE LET rest == postprocess_from(r.types, i + 1)
                  IN  [ok |-> rest.ok, types |-> rest.types,
                       errors |-> r.errors \o rest.errors]

\* mutant: the link specifiers are left as they are
postprocess_need_links_skipped(needs_types_list) ==
    [ok |-> TRUE, types |-> needs_types_list, errors |-> <<>>]

\* ok = FALSE: the isinstance assertion failed; types holds what was
\* already replaced in place
postprocess_need_links(needs_types_list) == postprocess_from(needs_types_list, 1)

(***************************************************************************)
(* Check registry and filter                                               *)
(***************************************************************************)
\* {c.__name__ for c in local_checks} | {c.__name__ for c in graph_checks}
all_check_names(lc, gc) ==
    {lc[i].name : i \in DOMAIN lc} \cup {gc[i].name : i \in DOMAIN gc}

\* mutant: the names are not validated against the registry
parse_checks_filter_unvalidated(filter, lc, gc) ==
    IF filter = <<>> THEN [ok |-> TRUE, checks |-> <<>>, names |-> {}]
    ELSE [ok |-> TRUE, checks |-> strip_all(split(filter)), names |-> {}]

\* mutant: a name registered twice fails the validation too
parse_checks_filter_unique(filter, lc, gc) ==
    IF filter = <<>> THEN [ok |-> TRUE, checks |-> <<>>, names |-> {}]
    ELSE LET checks == strip_all(split(filter))
             names == all_check_names(lc, gc)
         IN  IF \/ \E i \in DOMAIN checks : checks[i] \notin names
                \/ Cardinality(names) # Len(lc) + Len(gc)
             THEN [ok |-> FALSE, checks |-> <<>>, names |-> names]
             ELSE [ok |-> TRUE, checks |-> checks, names |-> {}]

\* mutant: names that are empty after trimming are dropped
parse_checks_filter_empties_dropped(filter, lc, gc) ==
    IF filter = <<>> THEN [ok |-> TRUE, checks |-> <<>>, names |-> {}]
    ELSE LET checks == SelectSeq(strip_all(split(filter)),
                                 LAMBDA c : c # <<>>)
             names == all_check_names(lc, gc)
         IN  IF \E i \in DOMAIN checks : checks[i] \notin names
             THEN [ok |-> FALSE, checks |-> <<>>, names |-> names]
             ELSE [ok |-> TRUE, checks |-> checks, names |-> {}]

\* ok = FALSE: the assertion failed, names is what its message lists
parse_checks_filter(filter, lc, gc) ==
    IF filter = <<>> THEN [ok |-> TRUE, checks |-> <<>>, names |-> {}]
    ELSE LET checks == strip_all(split(filter))
             names == all_check_names(lc, gc)
         IN  IF \E i \in DOMAIN checks : checks[i] \notin names
             THEN [ok |-> FALSE, checks |-> <<>>, names |-> names]
             ELSE [ok |-> TRUE, checks |-> checks, names |-> {}]

\* mutant: the filter is ignored
is_check_enabled_always(check, filter_list) == TRUE

is_check_enabled(check, filter_list) ==
    filter_list = <<>> \/ check.name \in Range(filter_list)

\* mutant: the enabled checks in reverse registration order
enabled_checks_reversed(registry, filter_list) ==
    LET fwd == SelectIdx(Len(registry),
                   [i \in DOMAIN registry |->
                       is_check_enabled(registry[i], filter_list)], 1)
    IN  [i \in DOMAIN fwd |-> fwd[Len(fwd) + 1 - i]]

\* positions in the registry list of the enabled checks, registration order
enabled_checks(registry, filter_list) ==
    SelectIdx(Len(registry),
              [i \in DOMAIN registry |-> is_check_enabled(registry[i], filter_list)],
              1)

\* mutant: external needs are not filtered out
needs_local_needs_unfiltered(view) ==
    SelectIdx(Len(view), [i \in DOMAIN view |-> TRUE], 1)

\* get_needs_view().filter_is_external(False): positions of internal needs
needs_local_needs(view) ==
    SelectIdx(Len(view), [i \in DOMAIN view |-> ~view[i].is_external], 1)

\* mutant: the inner loop runs over the enabled checks backwards
RECURSIVE local_pairs_rules_reversed(_, _)
local_pairs_rules_reversed(need_idx, check_idx) ==
    IF need_idx = <<>> THEN <<>>
    ELSE [j \in DOMAIN check_idx |->
             [need |-> Head(need_idx),
              check |-> check_idx[Len(check_idx) + 1 - j]]]
         \o local_pairs_rules_reversed(Tail(need_idx), check_idx)

\* the (need, check) pairs of the nested local loop, in loop order
RECURSIVE local_pairs(_, _)
local_pairs(need_idx, check_idx) ==
    IF need_idx = <<>> THEN <<>>
    ELSE [j \in DOMAIN check_idx |->
             [need |-> Head(need_idx), check |-> check_idx[j]]]
         \o local_pairs(Tail(need_idx), check_idx)

(***************************************************************************)
(* CheckLogger: counters, messages and the names of "new" checks           *)
(***************************************************************************)
NewLog == [warnings |-> 0, infos |-> 0, new_checks |-> {}, messages |-> {}]

log_warning(l, msg) ==
    [l EXCEPT !.warnings = @ + 1, !.messages = @ \cup {msg}]

log_info(l, msg) ==
    [l EXCEPT !.infos = @ + 1, !.messages = @ \cup {msg},
              !.new_checks = @ \cup {msg.check}]

\* what a check function does with the log when it returns normally
check_effect(fn, target, l) ==
    LET msg == [check |-> fn.name, target |-> target, level |-> fn.effect]
    IN  CASE fn.effect = "warning" -> log_warning(l, msg)
          [] fn.effect = "info" -> log_info(l, msg)
          [] OTHER -> l

NoEmit == [warning_summary |-> FALSE, info_summary |-> FALSE,
           flush_new_checks |-> FALSE]

NoPrev == [pc |-> "none", exception |-> FALSE, log |-> NewLog, calls |-> <<>>]

\* app.config before the source code linker is set up: options are the
\* names added with add_config_value
NoConfig ==
    [options |-> {}, needs_string_links |-> FALSE,
     skip_rescanning_via_source_code_linker |-> FALSE]

\* the source code linker is not loaded in this part of the program
NoLinker ==
    /\ config = NoConfig
    /\ listeners = <<>>
    /\ scl_cache_json = FALSE
    /\ setups = <<>>

\* metamodel.yaml is not read in this part of the program
NoData == [needs_types_base_options |-> <<>>, needs_types |-> <<>>]

(***************************************************************************)
(* Registration (discover_checks imports the check modules)                *)
(***************************************************************************)
local_check(func) ==
    /\ pc = "discover"
    /\ Len(local_checks) + Len(graph_checks) < MaxChecks
    /\ local_checks' = Append(local_checks, func)
    /\ UNCHANGED <<graph_checks, needs_types, needs, score_metamodel_checks,
                   pc, run, exception, fault, checks_filter, k, log, calls,
                   emitted, errors, assert_msg, prev, schemas, loaded_types, data,
                   linker_vars>>

graph_check(func) ==
    /\ pc = "discover"
    /\ Len(local_checks) + Len(graph_checks) < MaxChecks
    /\ graph_checks' = Append(graph_checks, func)
    /\ UNCHANGED <<local_checks, needs_types, needs, score_metamodel_checks,
                   pc, run, exception, fault, checks_filter, k, log, calls,
                   emitted, errors, assert_msg, prev, schemas, loaded_types, data,
                   linker_vars>>

(***************************************************************************)
(* _run_checks, connected to build-finished                                *)
(***************************************************************************)
Terminal == {"returned", "aborted", "done"}

enabled_local_checks == enabled_checks(local_checks, checks_filter)
enabled_graph_checks == enabled_checks(graph_checks, checks_filter)
LocalLoop == local_pairs(needs_local_needs(needs), enabled_local_checks)

\* where control goes once the local loop is at position n
AfterLocal(n, pairs, graph) ==
    IF n < Len(pairs) THEN "local"
    ELSE IF graph # <<>> THEN "graph" ELSE "summary"

\* mutant: the exception of the build is not looked at
RunChecks_Postprocess_unguarded(exc) ==
    /\ run' = run + 1
    /\ exception' = exc
    /\ prev' = IF run = 0 THEN NoPrev
               ELSE [pc |-> pc, exception |-> exception, log |-> log,
                     calls |-> calls]
    /\ log' = NewLog
    /\ calls' = <<>>
    /\ emitted' = NoEmit
    /\ assert_msg' = {}
    /\ checks_filter' = <<>>
    /\ k' = 0
    /\ LET r == postprocess_need_links(needs_types)
       IN  /\ needs_types' = r.types
           /\ errors' = errors \o r.errors
           /\ pc' = IF r.ok THEN "filter" ELSE "aborted"
           /\ fault' = IF r.ok THEN "none" ELSE "postprocess"
    /\ UNCHANGED <<local_checks, graph_checks, needs, score_metamodel_checks,
                   schemas, loaded_types, data,
                   linker_vars>>

\* lines 100-110: the exception guard and postprocess_need_links
RunChecks_Postprocess(exc) ==
    /\ run' = run + 1
    /\ exception' = exc
    /\ prev' = IF run = 0 THEN NoPrev
               ELSE [pc |-> pc, exception |-> exception, log |-> log,
                     calls |-> calls]
    /\ log' = NewLog
    /\ calls' = <<>>
    /\ emitted' = NoEmit
    /\ assert_msg' = {}
    /\ checks_filter' = <<>>
    /\ k' = 0
    /\ IF exc
       THEN /\ pc' = "returned"
            /\ fault' = "none"
            /\ UNCHANGED <<needs_types, errors>>
       ELSE LET r == postprocess_need_links(needs_types)
            IN  /\ needs_types' = r.types
                /\ errors' = errors \o r.errors
                /\ pc' = IF r.ok THEN "filter" ELSE "aborted"
                /\ fault' = IF r.ok THEN "none" ELSE "postprocess"
    /\ UNCHANGED <<local_checks, graph_checks, needs, score_metamodel_checks,
                   schemas, loaded_types, data,
                   linker_vars>>

\* build-finished of the first build: _run_checks(app, exception)
BuildFinished(exc) ==
    /\ pc = "discover"
    /\ RunChecks_Postprocess(exc)

\* build-finished of a later build of the same application
BuildFinishedAgain(exc) ==
    /\ pc \in Terminal
    /\ run < MaxRuns
    /\ RunChecks_Postprocess(exc)

\* lines 112-133: the log, the filter and the enabled local checks
RunChecks_Filter ==
    /\ pc = "filter"
    /\ LET r == parse_checks_filter(score_metamodel_checks, local_checks,
                                    graph_checks)
       IN  /\ checks_filter' = r.checks
           /\ assert_msg' = r.names
           /\ fault' = IF r.ok THEN "none" ELSE "filter"
           /\ pc' = IF ~r.ok THEN "aborted"
                    ELSE AfterLocal(0,
                             local_pairs(needs_local_needs(needs),
                                 enabled_checks(local_checks, r.checks)),
                             enabled_checks(graph_checks, r.checks))
    /\ log' = NewLog
    /\ k' = 0
    /\ UNCHANGED <<local_checks, graph_checks, needs_types, needs,
                   score_metamodel_checks, run, exception, calls, emitted,
                   errors, prev, schemas, loaded_types, data,
                   linker_vars>>

\* mutant: a fault of the check is swallowed and the loop goes on
RunChecks_LocalCheck_catch ==
    /\ pc = "local"
    /\ k < Len(LocalLoop)
    /\ LET p == LocalLoop[k + 1]
           fn == local_checks[p.check]
       IN  /\ calls' = Append(calls, [kind |-> "local", check |-> p.check,
                                      name |-> fn.name, need |-> p.need,
                                      view |-> <<>>])
           /\ log' = check_effect(fn, needs[p.need].id, log)
           /\ k' = k + 1
           /\ pc' = AfterLocal(k + 1, LocalLoop, enabled_graph_checks)
           /\ UNCHANGED fault
    /\ UNCHANGED <<local_checks, graph_checks, needs_types, needs,
                   score_metamodel_checks, run, exception, checks_filter,
                   emitted, errors, assert_msg, prev, schemas, loaded_types, data,
                   linker_vars>>

\* lines 136-139: one iteration of the nested loop, check(app, need, log)
RunChecks_LocalCheck ==
    /\ pc = "local"
    /\ k < Len(LocalLoop)
    /\ LET p == LocalLoop[k + 1]
           fn == local_checks[p.check]
       IN  /\ calls' = Append(calls, [kind |-> "local", check |-> p.check,
                                      name |-> fn.name, need |-> p.need,
                                      view |-> <<>>])
           /\ IF fn.effect = "raise"
              THEN /\ pc' = "aborted"
                   /\ fault' = "check"
                   /\ UNCHANGED <<log, k>>
              ELSE /\ log' = check_effect(fn, needs[p.need].id, log)
                   /\ k' = k + 1
                   /\ pc' = AfterLocal(k + 1, LocalLoop, enabled_graph_checks)
                   /\ UNCHANGED fault
    /\ UNCHANGED <<local_checks, graph_checks, needs_types, needs,
                   score_metamodel_checks, run, exception, checks_filter,
                   emitted, errors, assert_msg, prev, schemas, loaded_types, data,
                   linker_vars>>

\* lines 149-151: one iteration, check(app, needs_all_needs, log)
RunChecks_GraphCheck ==
    /\ pc = "graph"
    /\ LET g == k - Len(LocalLoop)
           c == enabled_graph_checks[g + 1]
           fn == graph_checks[c]
       IN  /\ g < Len(enabled_graph_checks)
           /\ calls' = Append(calls, [kind |-> "graph", check |-> c,
                                      name |-> fn.name, need |-> 0,
                                      view |-> needs])
           /\ IF fn.effect = "raise"
              THEN /\ pc' = "aborted"
                   /\ fault' = "check"
                   /\ UNCHANGED <<log, k>>
              ELSE /\ log' = check_effect(fn, 0, log)
                   /\ k' = k + 1
                   /\ pc' = IF g + 1 < Len(enabled_graph_checks)
                            THEN "graph" ELSE "summary"
                   /\ UNCHANGED fault
    /\ UNCHANGED <<local_checks, graph_checks, needs_types, needs,
                   score_metamodel_checks, run, exception, checks_filter,
                   emitted, errors, assert_msg, prev, schemas, loaded_types, data,
                   linker_vars>>

\* mutant: the warning summary is emitted for info-class results too
RunChecks_Summary_any ==
    /\ pc = "summary"
    /\ emitted' = [warning_summary |-> log.warnings # 0 \/ log.infos # 0,
                   info_summary |-> log.infos # 0,
                   flush_new_checks |-> log.infos # 0]
    /\ pc' = "done"
    /\ UNCHANGED <<local_checks, graph_checks, needs_types, needs,
                   score_metamodel_checks, run, exception, fault,
                   checks_filter, k, log, calls, errors, assert_msg, prev,
                   schemas, loaded_types, data,
                   linker_vars>>

\* lines 153-164: the two summaries
RunChecks_Summary ==
    /\ pc = "summary"
    /\ emitted' = [warning_summary |-> log.warnings # 0,
                   info_summary |-> log.infos # 0,
                   flush_new_checks |-> log.infos # 0]
    /\ pc' = "done"
    /\ UNCHANGED <<local_checks, graph_checks, needs_types, needs,
                   score_metamodel_checks, run, exception, fault,
                   checks_filter, k, log, calls, errors, assert_msg, prev,
                   schemas, loaded_types, data,
                   linker_vars>>

(***************************************************************************)
(* Spec: discovery followed by _run_checks on build-finished               *)
(***************************************************************************)
Str(d) == RawValue(d)

\* registries handed to _run_checks: loader-built types and a
\* Sphinx-Needs default type without the link keys
PlainRegistry ==
    <<NeedType(<<"a">>, BothKeys, <<>>, <<>>),
      NeedType(<<"b">>, {}, <<>>, <<>>)>>

LinkedRegistry ==
      <<NeedType(<<"a">>, BothKeys,
                 [satisfies |-> Str(<<"b">>)],
                 [relates |-> Str(<<"^", "a", ",", " ", "c">>)]),
        NeedType(<<"b">>, {"mandatory_links"},
                 [satisfies |-> Str(<<"a">>)], <<>>)>>

InitRunner(registries, filters) ==
    /\ local_checks = <<>>
    /\ graph_checks = <<>>
    /\ needs_types \in registries
    /\ needs \in NeedsViews
    /\ score_metamodel_checks \in filters
    /\ pc = "discover"
    /\ run = 0
    /\ exception = FALSE
    /\ fault = "none"
    /\ checks_filter = <<>>
    /\ k = 0
    /\ log = NewLog
    /\ calls = <<>>
    /\ emitted = NoEmit
    /\ errors = <<>>
    /\ assert_msg = {}
    /\ prev = NoPrev
    /\ schemas = <<>>
    /\ loaded_types = needs_types
    /\ data = NoData
    /\ NoLinker

Init == InitRunner({LinkedRegistry}, FilterStrings)

Next ==
    \/ \E func \in CheckFns : local_check(func)
    \/ \E func \in CheckFns : graph_check(func)
    \/ \E exc \in BOOLEAN : BuildFinished(exc)
    \/ RunChecks_Filter
    \/ RunChecks_LocalCheck
    \/ RunChecks_GraphCheck
    \/ RunChecks_Summary

Spec == Init /\ [][Next]_vars

(***************************************************************************)
(* SpecFilter: _run_checks resolves filters with blank and empty parts     *)
(***************************************************************************)
BlankTokens == {<<>>, <<" ">>, <<"a">>, <<" ", "b", " ">>}

\* the empty filter and the filters of up to MaxFilterParts parts
BlankFilterStrings ==
    {join(p) : p \in UNION {[1..n -> BlankTokens] : n \in 1..MaxFilterParts}}

LocalRegistries ==
    { <<>>, <<[name |-> <<"a">>, effect |-> "ok"]>>,
      <<[name |-> <<"a">>, effect |-> "ok"],
        [name |-> <<"b">>, effect |-> "info"]>> }

GraphRegistries == { <<>>, <<[name |-> <<"b">>, effect |-> "warning"]>> }

\* _run_checks has postprocessed the links and is about to read the filter
InitFilter ==
    /\ local_checks \in LocalRegistries
    /\ graph_checks \in GraphRegistries
    /\ needs_types = PlainRegistry
    /\ needs = <<[id |-> 1, is_external |-> FALSE]>>
    /\ score_metamodel_checks \in BlankFilterStrings
    /\ pc = "filter"
    /\ run = 1
    /\ exception = FALSE
    /\ fault = "none"
    /\ checks_filter = <<>>
    /\ k = 0
    /\ log = NewLog
    /\ calls = <<>>
    /\ emitted = NoEmit
    /\ errors = <<>>
    /\ assert_msg = {}
    /\ prev = NoPrev
    /\ schemas = <<>>
    /\ loaded_types = needs_types
    /\ data = NoData
    /\ NoLinker

NextFilter == RunChecks_Filter

SpecFilter == InitFilter /\ [][NextFilter]_vars

(***************************************************************************)
(* SpecRerun: the same application builds again, so build-finished calls   *)
(* _run_checks again on the same app.config                                *)
(***************************************************************************)
InitRerun == InitRunner({PlainRegistry, LinkedRegistry}, {<<>>, <<"a">>})

NextRerun ==
    \/ Next
    \/ \E exc \in BOOLEAN : BuildFinishedAgain(exc)

SpecRerun == InitRerun /\ [][NextRerun]_vars

(***************************************************************************)
(* SpecLinks: postprocess_need_links on a loaded registry                  *)
(***************************************************************************)
LinkTokens == {<<>>, <<"a">>, <<" ", "b">>, <<"^", "a">>, <<"c">>}
LinkSpecs ==
    {join(p) : p \in UNION {[1..n -> LinkTokens] : n \in 1..MaxLinkParts}}

\* the type whose mandatory link specifier varies
SourceTypes ==
    { NeedType(<<"a">>, keys, ml, ol) :
        keys \in {BothKeys, {"mandatory_links"}, {"optional_links"}},
        ml \in {<<>>} \cup {[satisfies |-> Str(v)] : v \in LinkSpecs},
        ol \in { <<>>,
                 [relates |-> Str(<<"^", "b">>)],
                 [relates |-> Str(<<" ", "c", " ", ",", "b">>)] } }

TargetTypes ==
    { NeedType(<<"b">>, BothKeys, <<>>, <<>>),
      NeedType(<<"b">>, BothKeys, [satisfies |-> Str(<<"a">>)], <<>>),
      NeedType(<<"b">>, {}, <<>>, <<>>) }

LinkRegistries ==
    {<<t, u>> : t \in SourceTypes, u \in TargetTypes}
        \cup {<<u, t>> : t \in SourceTypes, u \in TargetTypes}

InitLinks ==
    /\ needs_types \in LinkRegistries
    /\ loaded_types = needs_types
    /\ data = NoData
    /\ NoLinker
    /\ pc = "loaded"
    /\ errors = <<>>
    /\ local_checks = <<>>
    /\ graph_checks = <<>>
    /\ needs = <<>>
    /\ score_metamodel_checks = <<>>
    /\ run = 0
    /\ exception = FALSE
    /\ fault = "none"
    /\ checks_filter = <<>>
    /\ k = 0
    /\ log = NewLog
    /\ calls = <<>>
    /\ emitted = NoEmit
    /\ assert_msg = {}
    /\ prev = NoPrev
    /\ schemas = <<>>

PostprocessNeedLinks ==
    /\ pc = "loaded"
    /\ LET r == postprocess_need_links(needs_types)
       IN  /\ needs_types' = r.types
           /\ errors' = errors \o r.errors
           /\ pc' = IF r.ok THEN "postprocessed" ELSE "aborted"
    /\ UNCHANGED <<local_checks, graph_checks, needs, score_metamodel_checks,
                   run, exception, fault, checks_filter, k, log, calls,
                   emitted, assert_msg, prev, schemas, loaded_types, data,
                   linker_vars>>

NextLinks == PostprocessNeedLinks

SpecLinks == InitLinks /\ [][NextLinks]_vars

(***************************************************************************)
(* sn_schemas.py: write_sn_schemas                                         *)
(***************************************************************************)
SN_ARRAY_FIELDS == {"tags", "sections"}
IGNORE_FIELDS == {"content"}

\* iteration order of the keys of an options dict
FieldOrder == <<"id", "status", "tags", "sections", "content">>

FieldKeys(d) == SelectSeq(FieldOrder, LAMBDA n : n \in DOMAIN d)

Put(d, key, val) ==
    [x \in DOMAIN d \cup {key} |-> IF x = key THEN val ELSE d[x]]

get_pattern_schema(pattern) == [type |-> "string", pattern |-> pattern]

get_array_pattern_schema(pattern) ==
    [type |-> "array", items |-> get_pattern_schema(pattern)]

\* mutant: every field is single-pattern shaped
get_field_pattern_schema_single(field, pattern) == get_pattern_schema(pattern)

get_field_pattern_schema(field, pattern) ==
    IF field \in SN_ARRAY_FIELDS THEN get_array_pattern_schema(pattern)
    ELSE get_pattern_schema(pattern)

\* the local variable type_name before its first assignment
Unbound == [bound |-> FALSE, name |-> <<>>]
Bound(name) == [bound |-> TRUE, name |-> name]

RECURSIVE scan_link_values(_, _, _, _, _)
\* lines 46-56 / 60-70: the loop over the entries of one link field;
\* acc = [ok, regexes, targets, errors]; ok = FALSE: the error message read
\* type_name before it was assigned
scan_link_values(kind, field, link_values, type_name, acc) ==
    IF link_values = <<>> \/ ~acc.ok THEN acc
    ELSE LET v == Head(link_values)
             rest == Tail(link_values)
         IN  IF startswith(v, "^")
             THEN IF field \in DOMAIN acc.regexes
                  THEN IF ~type_name.bound
                       THEN [acc EXCEPT !.ok = FALSE]
                       ELSE scan_link_values(kind, field, rest, type_name,
                                [acc EXCEPT
                                    !.errors = Append(@,
                                        [kind |-> kind, field |-> field,
                                         need_type |-> type_name.name]),
                                    !.regexes = Put(@, field, v)])
                  ELSE scan_link_values(kind, field, rest, type_name,
                           [acc EXCEPT !.regexes = Put(@, field, v)])
             ELSE scan_link_values(kind, field, rest, type_name,
                      [acc EXCEPT !.targets = Put(@, field, v)])

RECURSIVE scan_links(_, _, _, _, _)
\* lines 44-45 / 58-59: the loop over the fields of one link dict
scan_links(kind, links, fields, type_name, acc) ==
    IF fields = <<>> \/ ~acc.ok THEN acc
    ELSE scan_links(kind, links, Tail(fields), type_name,
             scan_link_values(kind, Head(fields),
                 strip_all(split(links[Head(fields)].str)), type_name, acc))

NoLinks == [ok |-> TRUE, regexes |-> <<>>, targets |-> <<>>, errors |-> <<>>]

RECURSIVE local_fields(_, _, _, _)
\* lines 91-103: required and properties from an options dict
local_fields(options, fields, required, validator) ==
    IF fields = <<>> THEN validator
    ELSE LET f == Head(fields)
         IN  IF f \in IGNORE_FIELDS
             THEN local_fields(options, Tail(fields), required, validator)
             ELSE local_fields(options, Tail(fields), required,
                      [properties |->
                           Put(validator.properties, f,
                               get_field_pattern_schema(f, options[f])),
                       required |->
                           IF required THEN Append(validator.required, f)
                           ELSE validator.required])

RECURSIVE local_links(_, _, _)
\* lines 104-115: the link fields that have a regex
local_links(fields, mandatory, validator) ==
    IF fields = <<>> THEN validator
    ELSE local_links(Tail(fields), mandatory,
             [properties |->
                  Put(validator.properties, Head(fields),
                      IF mandatory THEN [type |-> "array", minItems |-> 1]
                      ELSE [type |-> "array"]),
              required |->
                  IF mandatory THEN Append(validator.required, Head(fields))
                  ELSE validator.required])

\* lines 119-137: link_validator is built for every target and dropped;
\* nothing is stored in validator_network
validator_network(mandatory_links_targets, optional_links_targets) == <<>>

\* mutant: the selector constant is the schema id
selector_by_id(type_name) ==
    [type_const |-> <<"need-type-">> \o type_name, required |-> <<"type">>]

\* lines 79-82: {"properties": {"type": {"const": type_name}},
\* "required": ["type"]}
selector(type_name) == [type_const |-> type_name, required |-> <<"type">>]

\* lines 28-141: the body of the loop for one need type;
\* [ok, skipped, schema, errors]
type_schema(need_type, type_name) ==
    LET mandatory_fields == need_type.mandatory_options
        optional_fields == need_type.optional_options
        mandatory_links == need_type.mandatory_links
        optional_links == need_type.optional_links
    IN  IF /\ DOMAIN mandatory_fields = {} /\ DOMAIN optional_fields = {}
           /\ DOMAIN mandatory_links = {} /\ DOMAIN optional_links = {}
        THEN [ok |-> TRUE, skipped |-> TRUE, schema |-> <<>>, errors |-> <<>>]
        ELSE LET m == scan_links("mandatory", mandatory_links,
                          DictKeys(mandatory_links), type_name, NoLinks)
                 o == scan_links("optional", optional_links,
                          DictKeys(optional_links), type_name, NoLinks)
                 v1 == local_fields(mandatory_fields,
                           FieldKeys(mandatory_fields), TRUE,
                           [properties |-> <<>>, required |-> <<>>])
                 v2 == local_fields(optional_fields,
                           FieldKeys(optional_fields), FALSE, v1)
                 v3 == local_links(DictKeys(m.regexes), TRUE, v2)
                 validator_local == local_links(DictKeys(o.regexes), FALSE, v3)
                 network == validator_network(m.targets, o.targets)
             IN  IF ~m.ok THEN [ok |-> FALSE, skipped |-> FALSE,
                                schema |-> <<>>, errors |-> m.errors]
                 ELSE IF ~o.ok THEN [ok |-> FALSE, skipped |-> FALSE,
                                     schema |-> <<>>,
                                     errors |-> m.errors \o o.errors]
                 ELSE [ok |-> TRUE, skipped |-> FALSE,
                       errors |-> m.errors \o o.errors,
                       schema |->
                           [id |-> <<"need-type-">> \o need_type.directive,
                            severity |-> "violation",
                            message |-> "Need does not conform to S-CORE metamodel",
                            select |-> selector(need_type.directive),
                            validate |->
                                [local |-> validator_local,
                                 has_network |-> DOMAIN network # {},
                                 network |-> network]]]

RECURSIVE write_from(_, _, _)
\* the loop of write_sn_schemas from position i on; type_name keeps the
\* directive of the last type that got a schema
write_from(types, i, type_name) ==
    IF i > Len(types) THEN [ok |-> TRUE, schemas |-> <<>>, errors |-> <<>>]
    ELSE LET r == type_schema(types[i], type_name)
         IN  IF ~r.ok THEN [ok |-> FALSE, schemas |-> <<>>, errors |-> r.errors]
             ELSE LET rest == write_from(types, i + 1,
                                  IF r.skipped THEN type_name
                                  ELSE Bound(types[i].directive))
                  IN  [ok |-> rest.ok,
                       schemas |-> (IF r.skipped THEN <<>> ELSE <<r.schema>>)
                                   \o rest.schemas,
                       errors |-> r.errors \o rest.errors]

write_sn_schemas(types) == write_from(types, 1, Unbound)

(***************************************************************************)
(* SpecSchema: setup() hands the loaded need types to write_sn_schemas     *)
(***************************************************************************)
AllKeys == BothKeys \cup {"mandatory_options", "optional_options"}

LoadedType(d, mo, oo, ml, ol) ==
    [directive |-> d, keys |-> AllKeys, prefix |-> d \o <<"_", "_">>,
     mandatory_options |-> mo, optional_options |-> oo,
     mandatory_links |-> ml, optional_links |-> ol]

SchemaLinkTokens == {<<"b">>, <<"^", "a">>, <<" ", "^", "b">>}
SchemaLinkSpecs ==
    {join(p) : p \in UNION {[1..n -> SchemaLinkTokens] : n \in 1..MaxLinkParts}}

IdPattern == <<"^", "a", "_", "+", "$">>
AnyPattern == <<"^", ".", "*", "$">>

SchemaTypes ==
    { LoadedType(<<"a">>, mo, oo, ml, ol) :
        mo \in { [id |-> IdPattern],
                 [id |-> IdPattern, tags |-> AnyPattern],
                 [id |-> IdPattern, content |-> AnyPattern] },
        oo \in { <<>>, [status |-> AnyPattern], [sections |-> AnyPattern],
                 [tags |-> IdPattern, content |-> AnyPattern] },
        ml \in {<<>>} \cup {[satisfies |-> Str(v)] : v \in SchemaLinkSpecs},
        ol \in {<<>>} \cup {[relates |-> Str(v)] : v \in SchemaLinkSpecs} }

EarlierTypes ==
    { LoadedType(<<"b">>, [id |-> IdPattern], <<>>, <<>>, <<>>),
      LoadedType(<<"b">>, <<>>, <<>>, <<>>, <<>>) }

SchemaRegistries ==
    {<<t>> : t \in SchemaTypes}
        \cup {<<u, t>> : u \in EarlierTypes, t \in SchemaTypes}

InitSchema ==
    /\ needs_types \in SchemaRegistries
    /\ loaded_types = needs_types
    /\ data = NoData
    /\ NoLinker
    /\ pc = "setup"
    /\ errors = <<>>
    /\ schemas = <<>>
    /\ local_checks = <<>>
    /\ graph_checks = <<>>
    /\ needs = <<>>
    /\ score_metamodel_checks = <<>>
    /\ run = 0
    /\ exception = FALSE
    /\ fault = "none"
    /\ checks_filter = <<>>
    /\ k = 0
    /\ log = NewLog
    /\ calls = <<>>
    /\ emitted = NoEmit
    /\ assert_msg = {}
    /\ prev = NoPrev

WriteSnSchemas ==
    /\ pc = "setup"
    /\ LET r == write_sn_schemas(needs_types)
       IN  /\ schemas' = r.schemas
           /\ errors' = errors \o r.errors
           /\ pc' = IF r.ok THEN "schemas_written" ELSE "aborted"
           /\ fault' = IF r.ok THEN "none" ELSE "type_name"
    /\ UNCHANGED <<local_checks, graph_checks, needs_types, needs,
                   score_metamodel_checks, run, exception, checks_filter, k,
                   log, calls, emitted, assert_msg, prev, loaded_types, data,
                   linker_vars>>

NextSchema == WriteSnSchemas

SpecSchema == InitSchema /\ [][NextSchema]_vars

(***************************************************************************)
(* yaml_parser.py: load_metamodel_data                                     *)
(***************************************************************************)
\* a type declaration of metamodel.yaml: keys are the keys the mapping has
Declaration(keys, prefix, mo, oo, ml, ol) ==
    [keys |-> keys, prefix |-> prefix,
     mandatory_options |-> mo, optional_options |-> oo,
     mandatory_links |-> ml, optional_links |-> ol]

\* yaml_data.get(key, default)
get(yaml_data, key, default) ==
    IF key \in yaml_data.keys THEN yaml_data[key] ELSE default

\* a | b on dicts: the keys of both, the value of b where both have the key
dict_or(a, b) ==
    [x \in DOMAIN a \cup DOMAIN b |-> IF x \in DOMAIN b THEN b[x] ELSE a[x]]

\* f"^{prefix}[0-9a-z_]+$"
id_regex(prefix) ==
    <<"^">> \o prefix
        \o <<"[", "0", "-", "9", "a", "-", "z", "_", "]", "+", "$">>

\* mutant: the type's own optional options win over the base options
_parse_need_type_own_first(directive_name, yaml_data, global_base_opts) ==
    LET prefix == get(yaml_data, "prefix", directive_name \o <<"_", "_">>)
        mo == get(yaml_data, "mandatory_options", <<>>)
    IN  [directive |-> directive_name, keys |-> AllKeys, prefix |-> prefix,
         mandatory_options |->
             IF "id" \notin DOMAIN mo THEN Put(mo, "id", id_regex(prefix))
             ELSE mo,
         optional_options |->
             dict_or(global_base_opts, get(yaml_data, "optional_options", <<>>)),
         mandatory_links |-> get(yaml_data, "mandatory_links", <<>>),
         optional_links |-> get(yaml_data, "optional_links", <<>>)]

\* mutant: the id pattern is always built from the prefix
_parse_need_type_id_overwritten(directive_name, yaml_data, global_base_opts) ==
    LET prefix == get(yaml_data, "prefix", directive_name \o <<"_", "_">>)
        mo == get(yaml_data, "mandatory_options", <<>>)
    IN  [directive |-> directive_name, keys |-> AllKeys, prefix |-> prefix,
         mandatory_options |-> Put(mo, "id", id_regex(prefix)),
         optional_options |->
             dict_or(get(yaml_data, "optional_options", <<>>), global_base_opts),
         mandatory_links |-> get(yaml_data, "mandatory_links", <<>>),
         optional_links |-> get(yaml_data, "optional_links", <<>>)]

\* lines 105-127; title, tags, parts, color and style are copied as they are
_parse_need_type(directive_name, yaml_data, global_base_opts) ==
    LET prefix == get(yaml_data, "prefix", directive_name \o <<"_", "_">>)
        mo == get(yaml_data, "mandatory_options", <<>>)
    IN  [directive |-> directive_name, keys |-> AllKeys, prefix |-> prefix,
         mandatory_options |->
             IF "id" \notin DOMAIN mo THEN Put(mo, "id", id_regex(prefix))
             ELSE mo,
         optional_options |->
             dict_or(get(yaml_data, "optional_options", <<>>), global_base_opts),
         mandatory_links |-> get(yaml_data, "mandatory_links", <<>>),
         optional_links |-> get(yaml_data, "optional_links", <<>>)]

\* types_dict: the items of the mapping in file order, <<directive, data>>
_parse_needs_types(types_dict, global_base_options_optional_opts) ==
    [i \in DOMAIN types_dict |->
        _parse_need_type(types_dict[i][1], types_dict[i][2],
                         global_base_options_optional_opts)]

\* lines 193-209: the base options and list(needs_types.values())
load_metamodel_data(yaml) ==
    _parse_needs_types(yaml.needs_types, yaml.needs_types_base_options)

(***************************************************************************)
(* SpecLoader: setup() loads metamodel.yaml and emits the schemas          *)
(***************************************************************************)
PrefixPattern == <<"^", "A", "_", ".", "$">>

Declarations ==
    { Declaration(keys, <<"A", "_">>, mo, oo, <<>>, ol) :
        keys \in { {}, {"prefix"}, {"mandatory_options"},
                   {"optional_options"},
                   {"prefix", "mandatory_options", "optional_options"},
                   {"mandatory_options", "optional_options",
                    "optional_links"} },
        mo \in { [status |-> AnyPattern], [id |-> PrefixPattern] },
        oo \in { [status |-> IdPattern], [tags |-> AnyPattern] },
        ol \in { [relates |-> Str(<<"^", "a", ",", "^", "b">>)] } }

BaseOptions ==
    { <<>>, [status |-> AnyPattern],
      [status |-> PrefixPattern, sections |-> AnyPattern] }

Directives == <<<<"a">>, <<"b">>, <<"c">>, <<"d">>>>

\* the mappings of up to MaxTypes declarations; the keys of a mapping differ
TypesDicts ==
    UNION { { [i \in 1..n |-> <<Directives[i], d[i]>>] :
                d \in [1..n -> Declarations] } : n \in 1..MaxTypes }

InitLoader ==
    /\ data \in { [needs_types_base_options |-> b, needs_types |-> t] :
                    b \in BaseOptions, t \in TypesDicts }
    /\ NoLinker
    /\ needs_types = <<>>
    /\ loaded_types = <<>>
    /\ pc = "start"
    /\ errors = <<>>
    /\ schemas = <<>>
    /\ local_checks = <<>>
    /\ graph_checks = <<>>
    /\ needs = <<>>
    /\ score_metamodel_checks = <<>>
    /\ run = 0
    /\ exception = FALSE
    /\ fault = "none"
    /\ checks_filter = <<>>
    /\ k = 0
    /\ log = NewLog
    /\ calls = <<>>
    /\ emitted = NoEmit
    /\ assert_msg = {}
    /\ prev = NoPrev

\* setup(), lines 238 and 246: app.config.needs_types = metamodel.needs_types
LoadMetamodelData ==
    /\ pc = "start"
    /\ needs_types' = load_metamodel_data(data)
    /\ loaded_types' = needs_types'
    /\ pc' = "setup"
    /\ UNCHANGED <<local_checks, graph_checks, needs, score_metamodel_checks,
                   run, exception, fault, checks_filter, k, log, calls,
                   emitted, errors, assert_msg, prev, schemas, data,
                   linker_vars>>

NextLoader ==
    \/ LoadMetamodelData
    \/ WriteSnSchemas

SpecLoader == InitLoader /\ [][NextLoader]_vars

(***************************************************************************)
(* score_source_code_linker/__init__.py: setup and setup_once              *)
(***************************************************************************)
SkipOption == "skip_rescanning_via_source_code_linker"

\* the application as setup_once sees it
App == [config |-> config, listeners |-> listeners,
        scl_cache_json |-> scl_cache_json]

\* app.add_config_value(name, ...): Sphinx refuses a name it already has
add_config_value(app, name) ==
    IF name \in app.config.options
    THEN [ok |-> FALSE, app |-> app]
    ELSE [ok |-> TRUE,
          app |-> [app EXCEPT !.config.options = @ \cup {name}]]

\* app.connect(event, callback, priority=priority)
connect(app, event, callback, priority) ==
    [app EXCEPT !.listeners = Append(@, [event |-> event,
                                         callback |-> callback,
                                         priority |-> priority])]

\* generate_source_code_links_json(ws_root, scl_cache_json): writes the
\* cache file or raises
generate_source_code_links_json(app, outcome) ==
    IF outcome = "written"
    THEN [ok |-> TRUE, app |-> [app EXCEPT !.scl_cache_json = TRUE]]
    ELSE [ok |-> FALSE, app |-> app]

\* lines 150-187; [ok, raised, generated, app]
setup_source_code_linker(app, env) ==
    LET added == add_config_value(app, SkipOption)
        a1 == [added.app EXCEPT !.config.needs_string_links = TRUE]
    IN  IF ~added.ok
        THEN [ok |-> FALSE, raised |-> "ExtensionError", generated |-> FALSE,
              app |-> app]
        ELSE IF \/ ~a1.scl_cache_json
                \/ ~a1.config.skip_rescanning_via_source_code_linker
        THEN LET g == generate_source_code_links_json(a1, env.generate)
             IN  [ok |-> g.ok,
                  raised |-> IF g.ok THEN "none" ELSE "generate",
                  generated |-> g.ok, app |-> g.app]
        ELSE [ok |-> TRUE, raised |-> "none", generated |-> FALSE,
              app |-> a1]

\* line 194
register_test_code_linker(app) ==
    connect(app, "env-updated", "setup_test_code_linker", 505)

\* line 241
register_combined_linker(app) ==
    connect(app, "env-updated", "setup_combined_linker", 507)

\* lines 275-280: the body of setup_once behind its guards
setup_once_body(app, env) ==
    LET r == setup_source_code_linker(app, env)
    IN  IF ~r.ok
        THEN [outcome |-> r.raised, generated |-> FALSE, app |-> r.app]
        ELSE [outcome |-> "set_up", generated |-> r.generated,
              app |-> connect(
                          register_combined_linker(
                              register_test_code_linker(r.app)),
                          "env-updated", "inject_links_into_needs", 510)]

\* mutant: the config value is not looked at
setup_once_unguarded(app, env) ==
    IF ~env.ws_root
    THEN [outcome |-> "no_ws_root", generated |-> FALSE, app |-> app]
    ELSE IF ~env.git_root
    THEN [outcome |-> "AssertionError", generated |-> FALSE, app |-> app]
    ELSE setup_once_body(app, env)

\* lines 255-280; env: what find_ws_root(), find_git_root() and the
\* generation of the cache file give in this call
setup_once(app, env) ==
    IF SkipOption \in app.config.options
    THEN [outcome |-> "returned", generated |-> FALSE, app |-> app]
    ELSE IF ~env.ws_root
    THEN [outcome |-> "no_ws_root", generated |-> FALSE, app |-> app]
    ELSE IF ~env.git_root
    THEN [outcome |-> "AssertionError", generated |-> FALSE, app |-> app]
    ELSE setup_once_body(app, env)

(***************************************************************************)
(* SpecLinker: the host calls setup() of the source code linker again and  *)
(* again on the same application (Esbonio, live preview)                   *)
(***************************************************************************)
Environments ==
    [ws_root : BOOLEAN, git_root : BOOLEAN, generate : {"written", "raised"}]

InitLinker ==
    /\ config \in { [NoConfig EXCEPT
                        !.skip_rescanning_via_source_code_linker = v] :
                      v \in BOOLEAN }
    /\ listeners = <<>>
    /\ scl_cache_json \in BOOLEAN
    /\ setups = <<>>
    /\ pc = "extension"
    /\ data = NoData
    /\ needs_types = <<>>
    /\ loaded_types = <<>>
    /\ errors = <<>>
    /\ schemas = <<>>
    /\ local_checks = <<>>
    /\ graph_checks = <<>>
    /\ needs = <<>>
    /\ score_metamodel_checks = <<>>
    /\ run = 0
    /\ exception = FALSE
    /\ fault = "none"
    /\ checks_filter = <<>>
    /\ k = 0
    /\ log = NewLog
    /\ calls = <<>>
    /\ emitted = NoEmit
    /\ assert_msg = {}
    /\ prev = NoPrev

\* lines 283-292: setup(app) calls setup_once(app)
setup(env) ==
    /\ pc = "extension"
    /\ Len(setups) < MaxSetups
    /\ LET r == setup_once(App, env)
       IN  /\ config' = r.app.config
           /\ listeners' = r.app.listeners
           /\ scl_cache_json' = r.app.scl_cache_json
           /\ setups' = Append(setups,
                               [outcome |-> r.outcome,
                                generated |-> r.generated])
    /\ UNCHANGED <<local_checks, graph_checks, needs_types, needs,
                   score_metamodel_checks, pc, run, exception, fault,
                   checks_filter, k, log, calls, emitted, errors, assert_msg,
                   prev, schemas, loaded_types, data>>

NextLinker == \E env \in Environments : setup(env)

SpecLinker == InitLinker /\ [][NextLinker]_vars

(***************************************************************************)
(* Properties of _run_checks                                               *)
(***************************************************************************)
\* The names a string of comma-separated names holds, read off the string
\* itself: entry m is the m-th maximal comma-free stretch without the
\* blanks at both of its ends.
IsSegment(f, i, j) ==
    /\ \A x \in i..j : f[x] # ","
    /\ i = 1 \/ f[i - 1] = ","
    /\ j = Len(f) \/ f[j + 1] = ","

IsTrimOf(f, i, j, a, b) ==
    /\ i <= a /\ b <= j /\ a <= b + 1
    /\ \A x \in i..(a - 1) : f[x] = " "
    /\ \A x \in (b + 1)..j : f[x] = " "
    /\ a <= b => (f[a] # " " /\ f[b] # " ")

NumEntries(f) == 1 + Cardinality({x \in DOMAIN f : f[x] = ","})

EntryAt(f, m) ==
    LET i == CHOOSE i \in 1..(Len(f) + 1) :
                 /\ i = 1 \/ f[i - 1] = ","
                 /\ Cardinality({x \in 1..(i - 1) : f[x] = ","}) = m - 1
        j == CHOOSE j \in (i - 1)..Len(f) : IsSegment(f, i, j)
        ab == CHOOSE ab \in (i..(j + 1)) \X ((i - 1)..j) :
                  IsTrimOf(f, i, j, ab[1], ab[2])
    IN  SubSeq(f, ab[1], ab[2])

NamesIn(f) == {EntryAt(f, m) : m \in 1..NumEntries(f)}

RegisteredNames ==
    {local_checks[i].name : i \in DOMAIN local_checks}
        \cup {graph_checks[i].name : i \in DOMAIN graph_checks}

\* the filter enables the check of this name
EnabledByFilter(name) ==
    score_metamodel_checks = <<>> \/ name \in NamesIn(score_metamodel_checks)

Invoked(kind, c) ==
    \E i \in DOMAIN calls : calls[i].kind = kind /\ calls[i].check = c

Invocations(kind, c) ==
    Cardinality({i \in DOMAIN calls : calls[i].kind = kind /\ calls[i].check = c})

InternalNeeds == {i \in DOMAIN needs : ~needs[i].is_external}

GraphCalls == SelectSeq(calls, LAMBDA c : c.kind = "graph")
LocalCalls == SelectSeq(calls, LAMBDA c : c.kind = "local")

\* every link field of every type that has both link keys is a list
LinksResolved ==
    \A i \in DOMAIN needs_types :
        BothKeys \subseteq needs_types[i].keys =>
            /\ \A n \in DOMAIN needs_types[i].mandatory_links :
                   needs_types[i].mandatory_links[n].kind = "list"
            /\ \A n \in DOMAIN needs_types[i].optional_links :
                   needs_types[i].optional_links[n].kind = "list"

\* the registered names the filter enables
EnabledNames == {n \in RegisteredNames : EnabledByFilter(n)}

\* C1: no external need is ever passed to a local check; every graph check
\* invocation receives the full needs view, external needs included, and in
\* a completed run every enabled graph check has received it.
C1_ExternalOnlyToGraph ==
    LET enabled == EnabledNames
    IN  /\ \A i \in DOMAIN calls :
               /\ calls[i].kind = "local" => ~needs[calls[i].need].is_external
               /\ calls[i].kind = "graph" => calls[i].view = needs
        /\ pc = "done" =>
               \A g \in DOMAIN graph_checks :
                   graph_checks[g].name \in enabled =>
                       \E i \in DOMAIN calls :
                           /\ calls[i].kind = "graph"
                           /\ calls[i].check = g
                           /\ calls[i].view = needs

C1_Witness ==
    /\ pc = "done"
    /\ \E n \in DOMAIN needs : needs[n].is_external
    /\ \E i \in DOMAIN calls : calls[i].kind = "local"
    /\ \E i \in DOMAIN calls :
           calls[i].kind = "graph" /\ \E n \in DOMAIN calls[i].view :
               calls[i].view[n].is_external

\* C2 as stated: in a completed run, with the empty filter every registered
\* check is enabled, and with a filter naming registered checks a
\* registered check, local or graph, is invoked if and only if the filter
\* names it.
C2_InvokedIffNamed ==
    pc = "done" =>
        LET names == NamesIn(score_metamodel_checks)
        IN  /\ score_metamodel_checks = <<>> =>
                   /\ enabled_local_checks = [i \in DOMAIN local_checks |-> i]
                   /\ enabled_graph_checks = [i \in DOMAIN graph_checks |-> i]
            /\ score_metamodel_checks # <<>> =>
                   /\ \A c \in DOMAIN local_checks :
                          Invoked("local", c) <=> local_checks[c].name \in names
                   /\ \A c \in DOMAIN graph_checks :
                          Invoked("graph", c) <=> graph_checks[c].name \in names

\* C2 amended: a check the filter does not enable is never invoked; in a
\* completed run, with the empty filter every registered check is enabled,
\* a graph check is invoked iff the filter is empty or names it, and a
\* local check iff the filter is empty or names it and the needs view
\* holds at least one internal need.
C2_InvokedIffNamedAndApplicable ==
    LET enabled == EnabledNames
    IN  /\ \A i \in DOMAIN calls : calls[i].name \in enabled
        /\ (pc = "done" /\ score_metamodel_checks = <<>>) =>
               /\ enabled_local_checks = [i \in DOMAIN local_checks |-> i]
               /\ enabled_graph_checks = [i \in DOMAIN graph_checks |-> i]
        /\ pc = "done" =>
               /\ \A c \in DOMAIN local_checks :
                      Invoked("local", c) <=>
                          (local_checks[c].name \in enabled
                              /\ InternalNeeds # {})
               /\ \A c \in DOMAIN graph_checks :
                      Invoked("graph", c) <=> graph_checks[c].name \in enabled

C2_Witness ==
    /\ pc = "done"
    /\ score_metamodel_checks # <<>>
    /\ \E c \in DOMAIN local_checks :
           Invoked("local", c) /\ local_checks[c].name = <<"a">>
    /\ \E c \in DOMAIN graph_checks :
           ~Invoked("graph", c) /\ graph_checks[c].name = <<"b">>

\* C3: when the filter names a check that is not registered, _run_checks
\* stops at the filter with the assertion whose message lists the names of
\* all registered checks, and no check is invoked in that run.
FilterNamesUnknown ==
    /\ score_metamodel_checks # <<>>
    /\ \E n \in NamesIn(score_metamodel_checks) : n \notin RegisteredNames

C3_UnknownNameFails ==
    FilterNamesUnknown =>
        /\ calls = <<>>
        /\ pc \in {"discover", "filter", "returned", "aborted"}
        /\ (pc = "aborted" /\ fault # "postprocess") =>
               (fault = "filter" /\ assert_msg = RegisteredNames)

C3_Witness ==
    /\ pc = "aborted"
    /\ fault = "filter"
    /\ assert_msg = {<<"a">>}
    /\ <<"b">> \in NamesIn(score_metamodel_checks)
    /\ needs # <<>>

\* C6: no local check is invoked after a graph check; when a graph check is
\* invoked the local loop has finished (every enabled local check has
\* returned for every internal need) and the links are postprocessed; graph
\* checks are invoked in registration order, each at most once, and in a
\* completed run each enabled one exactly once.
C6_GraphAfterLocal ==
    LET enabled == EnabledNames
    IN  /\ \A i, j \in DOMAIN calls :
               (i < j /\ calls[i].kind = "graph") =>
                   /\ calls[j].kind = "graph"
                   /\ calls[i].check < calls[j].check
        /\ (\E i \in DOMAIN calls : calls[i].kind = "graph") =>
               /\ LinksResolved
               /\ \A c \in DOMAIN local_checks :
                      local_checks[c].name \in enabled =>
                          \A n \in InternalNeeds :
                              \E i \in DOMAIN calls :
                                  /\ calls[i].kind = "local"
                                  /\ calls[i].check = c
                                  /\ calls[i].need = n
               /\ \A i \in DOMAIN calls :
                      calls[i].kind = "local" =>
                          local_checks[calls[i].check].effect # "raise"
        /\ pc = "done" =>
               \A g \in DOMAIN graph_checks :
                   Invocations("graph", g) =
                       (IF graph_checks[g].name \in enabled THEN 1 ELSE 0)

C6_Witness ==
    /\ pc = "done"
    /\ Len(LocalCalls) >= 1
    /\ Len(GraphCalls) >= 1
    /\ calls[Len(calls)].kind = "graph"
    /\ calls[1].kind = "local"

\* C7: whenever a check has been invoked, every link field of every need
\* type that has both mandatory_links and optional_links holds a resolved
\* list, not the raw specifier string.
C7_LinksResolvedBeforeChecks ==
    calls # <<>> => LinksResolved

C7_Witness ==
    /\ calls # <<>>
    /\ \E i \in DOMAIN needs_types :
           /\ BothKeys \subseteq needs_types[i].keys
           /\ loaded_types[i].mandatory_links # <<>>
           /\ \A n \in DOMAIN loaded_types[i].mandatory_links :
                  /\ loaded_types[i].mandatory_links[n].kind = "str"
                  /\ needs_types[i].mandatory_links[n].kind = "list"

\* C8: a check that raises ends the run: it is the last check invoked, the
\* run is aborted by that fault and no summary is emitted.
CallRaises(c) ==
    IF c.kind = "local" THEN local_checks[c.check].effect = "raise"
    ELSE graph_checks[c.check].effect = "raise"

C8_FaultAborts ==
    \A i \in DOMAIN calls :
        CallRaises(calls[i]) =>
            /\ i = Len(calls)
            /\ pc = "aborted"
            /\ fault = "check"
            /\ emitted = NoEmit

C8_Witness ==
    /\ pc = "aborted"
    /\ fault = "check"
    /\ Len(calls) >= 2
    /\ calls[Len(calls)].kind = "local"
    /\ Len(LocalLoop) > Len(calls)

\* C9: the summaries are emitted only at the end of a completed run; the
\* warning summary iff the log counted a warning, the info summary and the
\* flush of the new check names iff the log counted an info.
C9_Summaries ==
    /\ pc # "done" => emitted = NoEmit
    /\ pc = "done" =>
           /\ emitted.warning_summary <=> log.warnings > 0
           /\ emitted.info_summary <=> log.infos > 0
           /\ emitted.flush_new_checks <=> log.infos > 0

C9_Witness ==
    /\ pc = "done"
    /\ log.infos > 0
    /\ log.warnings = 0
    /\ emitted.info_summary
    /\ emitted.flush_new_checks
    /\ ~emitted.warning_summary

\* C4: a second _run_checks on the same application, needs and
\* configuration, after a completed first one, completes too and counts and
\* logs the same.
C4_SecondRunSame ==
    (run = 2 /\ prev.pc = "done" /\ ~exception /\ pc \in {"aborted", "done"})
        => /\ pc = "done"
           /\ log.warnings = prev.log.warnings
           /\ log.infos = prev.log.infos
           /\ log.messages = prev.log.messages

\* the names under which more than one rule is registered
DuplicateNames ==
    { n \in RegisteredNames :
        Cardinality({i \in DOMAIN local_checks : local_checks[i].name = n})
            + Cardinality({i \in DOMAIN graph_checks :
                              graph_checks[i].name = n}) > 1 }

FilterResolved == run > 0 /\ ~exception /\ pc \notin {"discover", "filter"}

\* C17 as stated: registering two rules with the same name is accepted at
\* registration time, and the duplicate name is then caught by
\* parse_checks_filter when the filter is resolved.
C17_DuplicateCaughtByFilter ==
    /\ (pc = "discover" /\ DuplicateNames # {}) => fault = "none"
    /\ ( /\ FilterResolved
         /\ score_metamodel_checks # <<>>
         /\ DuplicateNames \cap NamesIn(score_metamodel_checks) # {} )
           => fault = "filter"

\* C17 as amended: two rules with the same name are accepted at registration
\* time and by parse_checks_filter as well: the filter validation fails
\* exactly when the filter names a rule that is not registered, and in a
\* completed run every rule registered under an enabled duplicate name is
\* invoked.
C17_DuplicateNeverCaught ==
    DuplicateNames # {} =>
        /\ pc = "discover" => fault = "none"
        /\ FilterResolved => (fault = "filter" <=> FilterNamesUnknown)
        /\ pc = "done" =>
               \A n \in DuplicateNames :
                   EnabledByFilter(n) =>
                       /\ \A g \in DOMAIN graph_checks :
                              graph_checks[g].name = n => Invoked("graph", g)
                       /\ \A c \in DOMAIN local_checks :
                              (local_checks[c].name = n /\ InternalNeeds # {})
                                  => Invoked("local", c)

C17_Witness ==
    /\ pc = "done"
    /\ score_metamodel_checks # <<>>
    /\ DuplicateNames \cap NamesIn(score_metamodel_checks) # {}
    /\ Len(calls) >= 2
    /\ calls[1].name = calls[2].name
    /\ calls[1].kind # calls[2].kind

LocalInvocations(c, n) ==
    Cardinality({i \in DOMAIN calls :
                    /\ calls[i].kind = "local"
                    /\ calls[i].check = c
                    /\ calls[i].need = n})

\* C18: for every non-external item each enabled local rule is invoked
\* exactly once per run with that item (once the local phase has finished),
\* never more than once, and the invocations for one item occur in the
\* order in which the rules were registered.
C18_LocalRulesPerItemInOrder ==
    LET enabled == EnabledNames
    IN  /\ \A i, j \in DOMAIN calls :
               ( /\ i < j
                 /\ calls[i].kind = "local" /\ calls[j].kind = "local"
                 /\ calls[i].need = calls[j].need )
                   => calls[i].check < calls[j].check
        /\ pc \in {"graph", "summary", "done"} =>
               \A n \in InternalNeeds :
                   \A c \in DOMAIN local_checks :
                       LocalInvocations(c, n) =
                           (IF local_checks[c].name \in enabled THEN 1 ELSE 0)

C18_Witness ==
    /\ pc = "done"
    /\ Cardinality(InternalNeeds) >= 1
    /\ \E i, j \in DOMAIN calls :
           /\ i < j
           /\ calls[i].kind = "local" /\ calls[j].kind = "local"
           /\ calls[i].need = calls[j].need
           /\ calls[i].check = 1 /\ calls[j].check = 2

LinkDicts == {"mandatory_links", "optional_links"}

\* no link field of any type has been replaced by a resolved list
LinksRaw ==
    \A i \in DOMAIN needs_types :
        \A links \in LinkDicts :
            \A n \in DOMAIN needs_types[i][links] :
                needs_types[i][links][n].kind = "str"

\* C19: when the build finished with an exception _run_checks does nothing:
\* no rule is invoked, no summary is emitted, the filter is not validated
\* and the link fields of the type definitions stay raw specifier strings.
C19_ExceptionSkipsRun ==
    (run > 0 /\ exception) =>
        /\ pc = "returned"
        /\ calls = <<>>
        /\ emitted = NoEmit
        /\ fault = "none"
        /\ assert_msg = {}
        /\ errors = <<>>
        /\ needs_types = loaded_types
        /\ LinksRaw

C19_Witness ==
    /\ pc = "returned"
    /\ exception
    /\ FilterNamesUnknown
    /\ local_checks # <<>>
    /\ graph_checks # <<>>
    /\ InternalNeeds # {}
    /\ \E i \in DOMAIN needs_types : needs_types[i].mandatory_links # <<>>

\* the filter has a part that is empty after trimming
HasBlankName(f) == \E m \in 1..NumEntries(f) : EntryAt(f, m) = <<>>

\* C24: only the exactly empty filter string means 'all enabled'; a
\* non-empty filter with a part that is empty after trimming (a filter of
\* blanks only, a trailing or doubled comma) is rejected with the
\* unknown-check assertion, even when all its other names are registered.
C24_BlankNameRejected ==
    pc # "filter" =>
        /\ score_metamodel_checks = <<>> =>
               /\ fault = "none"
               /\ checks_filter = <<>>
               /\ enabled_local_checks = [i \in DOMAIN local_checks |-> i]
               /\ enabled_graph_checks = [i \in DOMAIN graph_checks |-> i]
        /\ ( /\ score_metamodel_checks # <<>>
             /\ HasBlankName(score_metamodel_checks) ) =>
               /\ pc = "aborted"
               /\ fault = "filter"
               /\ assert_msg = RegisteredNames
               /\ calls = <<>>

C24_Witness ==
    /\ pc = "aborted"
    /\ fault = "filter"
    /\ score_metamodel_checks = <<"a", ",">>
    /\ <<"a">> \in RegisteredNames

(***************************************************************************)
(* Properties of link resolution                                           *)
(***************************************************************************)
EntryKind(e) ==
    IF e # <<>> /\ e[1] = "^" THEN "pat"
    ELSE IF \E t \in DOMAIN loaded_types : loaded_types[t].directive = e
         THEN "ref" ELSE "unknown"

\* positions of the entries of f that are patterns or declared type names
KeptEntries(f) ==
    SelectIdx(NumEntries(f),
              [m \in 1..NumEntries(f) |-> EntryKind(EntryAt(f, m)) # "unknown"], 1)

UnknownEntries(f) ==
    SelectIdx(NumEntries(f),
              [m \in 1..NumEntries(f) |-> EntryKind(EntryAt(f, m)) = "unknown"], 1)

ErrorsFor(directive, link) ==
    SelectSeq(errors, LAMBDA e : e.directive = directive /\ e.link = link)

\* value is the resolution of the specifier raw of link field n of a type
ResolvedAsSpecified(directive, n, raw, value) ==
    LET kept == KeptEntries(raw)
        unknown == UnknownEntries(raw)
        errs == ErrorsFor(directive, n)
    IN  /\ value.kind = "list"
        /\ Len(value.list) = Len(kept)
        /\ \A p \in DOMAIN kept :
               LET e == EntryAt(raw, kept[p])
               IN  IF EntryKind(e) = "pat"
                   THEN value.list[p] = PatEntry(e)
                   ELSE /\ value.list[p].kind = "ref"
                        /\ value.list[p].ref \in DOMAIN needs_types
                        /\ needs_types[value.list[p].ref].directive = e
        /\ Len(errs) = Len(unknown)
        /\ \A p \in DOMAIN unknown :
               errs[p].unknown = EntryAt(raw, unknown[p])

\* C5: postprocessing never raises on loaded types, and every link field of
\* a type with both link keys holds, entry by entry and in order, the
\* pattern for a '^' entry and the type definition for a declared type
\* name; every other entry is dropped with exactly one error line.
C5_EntriesResolvedIndependently ==
    /\ pc # "aborted"
    /\ pc = "postprocessed" =>
           \A i \in DOMAIN needs_types :
               BothKeys \subseteq needs_types[i].keys =>
                   /\ \A n \in DOMAIN loaded_types[i].mandatory_links :
                          ResolvedAsSpecified(loaded_types[i].directive, n,
                              loaded_types[i].mandatory_links[n].str,
                              needs_types[i].mandatory_links[n])
                   /\ \A n \in DOMAIN loaded_types[i].optional_links :
                          ResolvedAsSpecified(loaded_types[i].directive, n,
                              loaded_types[i].optional_links[n].str,
                              needs_types[i].optional_links[n])

C5_Witness ==
    /\ pc = "postprocessed"
    /\ \E i \in DOMAIN needs_types :
           /\ BothKeys \subseteq needs_types[i].keys
           /\ "satisfies" \in DOMAIN loaded_types[i].mandatory_links
           /\ loaded_types[i].mandatory_links["satisfies"].str
                  = <<"c", ",", " ", "b">>
           /\ needs_types[i].mandatory_links["satisfies"].list
                  = <<RefEntry(3 - i)>>
           /\ Len(ErrorsFor(<<"a">>, "satisfies")) = 1
           /\ needs_types[i].optional_links # <<>>
           /\ \A n \in DOMAIN needs_types[i].optional_links :
                  needs_types[i].optional_links[n].kind = "list"

\* the orders in which n types can appear in the registry
Perms(n) ==
    { p \in [1..n -> 1..n] : \A i, j \in 1..n : p[i] = p[j] => i = j }

Permuted(types, p) == [i \in DOMAIN types |-> types[p[i]]]

\* what a link field holds, with a type reference read as the declaration
\* of the referenced type; declared is the registry as it was loaded
LinkView(value, declared) ==
    IF value.kind = "str" THEN <<<<"raw", value.str>>>>
    ELSE [e \in DOMAIN value.list |->
             IF value.list[e].kind = "pat"
             THEN <<"pattern", value.list[e].pat>>
             ELSE <<"type", declared[value.list[e].ref]>>]

\* C16: the result of link resolution does not depend on the order of the
\* types in the registry: for every permutation of the type list every link
\* field resolves to the same sequence of type references and patterns, so
\* a type may reference a type declared after it.
C16_OrderIndependent ==
    pc = "postprocessed" =>
        \A p \in Perms(Len(loaded_types)) :
            LET declared == Permuted(loaded_types, p)
                r == postprocess_need_links(declared)
            IN  /\ r.ok
                /\ \A i \in DOMAIN declared :
                       \A links \in LinkDicts :
                           /\ DOMAIN r.types[i][links]
                                  = DOMAIN needs_types[p[i]][links]
                           /\ \A n \in DOMAIN r.types[i][links] :
                                  LinkView(r.types[i][links][n], declared)
                                      = LinkView(needs_types[p[i]][links][n],
                                                 loaded_types)

\* a resolved link field of the first type references the second type
C16_Witness ==
    /\ pc = "postprocessed"
    /\ Len(needs_types) > 1
    /\ \E n \in DOMAIN needs_types[1].mandatory_links :
           LET v == needs_types[1].mandatory_links[n]
           IN  /\ v.kind = "list"
               /\ \E e \in DOMAIN v.list :
                      v.list[e].kind = "ref" /\ v.list[e].ref > 1

\* the text of a resolved entry: the pattern, or the directive of the
\* referenced type definition of the registry
EntryText(e) ==
    IF e.kind = "pat" THEN e.pat
    ELSE IF e.ref \in DOMAIN needs_types THEN needs_types[e.ref].directive
    ELSE <<"?">>

\* list holds entries of the specifier raw in the specifier's order
InSpecifierOrder(list, raw) ==
    \E f \in [DOMAIN list -> 1..NumEntries(raw)] :
        /\ \A x, y \in DOMAIN list : x < y => f[x] < f[y]
        /\ \A x \in DOMAIN list : EntryAt(raw, f[x]) = EntryText(list[x])

\* C22: after postprocess_need_links every link field of a type that has
\* both link keys is a list whose entries are each a string starting with
\* '^' or a type definition of the registry, in the order of the
\* specifier's entries; the link field names of every type are unchanged.
C22_LinkFieldsWellFormed ==
    pc = "postprocessed" =>
        \A i \in DOMAIN needs_types :
            \A links \in LinkDicts :
                /\ DOMAIN needs_types[i][links] = DOMAIN loaded_types[i][links]
                /\ BothKeys \subseteq needs_types[i].keys =>
                       \A n \in DOMAIN needs_types[i][links] :
                           LET v == needs_types[i][links][n]
                           IN  /\ v.kind = "list"
                               /\ \A x \in DOMAIN v.list :
                                      \/ /\ v.list[x].kind = "pat"
                                         /\ v.list[x].pat # <<>>
                                         /\ v.list[x].pat[1] = "^"
                                      \/ /\ v.list[x].kind = "ref"
                                         /\ v.list[x].ref \in DOMAIN needs_types
                               /\ InSpecifierOrder(v.list,
                                      loaded_types[i][links][n].str)

C22_Witness ==
    /\ pc = "postprocessed"
    /\ \E i \in DOMAIN needs_types :
           /\ BothKeys \subseteq needs_types[i].keys
           /\ \E n \in DOMAIN needs_types[i].mandatory_links :
                  LET v == needs_types[i].mandatory_links[n]
                  IN  /\ v.kind = "list"
                      /\ Len(v.list) = 2
                      /\ v.list[1].kind = "ref"
                      /\ v.list[2].kind = "pat"
           /\ needs_types[i].optional_links # <<>>

LacksLinkKey(t) == ~(BothKeys \subseteq t.keys)

\* C23: postprocess_need_links skips a type that lacks the mandatory_links
\* key or the optional_links key: none of its link fields is changed (a
\* present mandatory_links mapping stays unresolved), and the remaining
\* types are processed without raising.
C23_TypeWithoutLinkKeySkipped ==
    pc # "loaded" =>
        /\ pc = "postprocessed"
        /\ \A i \in DOMAIN needs_types :
               IF LacksLinkKey(loaded_types[i])
               THEN /\ needs_types[i] = loaded_types[i]
                    /\ \A e \in DOMAIN errors :
                           errors[e].directive # loaded_types[i].directive
               ELSE \A links \in LinkDicts :
                        \A n \in DOMAIN loaded_types[i][links] :
                            /\ n \in DOMAIN needs_types[i][links]
                            /\ needs_types[i][links][n].kind = "list"

C23_Witness ==
    /\ pc = "postprocessed"
    /\ Len(needs_types) = 2
    /\ "optional_links" \notin needs_types[1].keys
    /\ \E n \in DOMAIN needs_types[1].mandatory_links :
           needs_types[1].mandatory_links[n].kind = "str"
    /\ BothKeys \subseteq needs_types[2].keys
    /\ \E n \in DOMAIN needs_types[2].mandatory_links :
           /\ needs_types[2].mandatory_links[n].kind = "list"
           /\ needs_types[2].mandatory_links[n].list # <<>>

(***************************************************************************)
(* Properties of the schema emitter                                        *)
(***************************************************************************)
\* the entries of the specifier of a link field that name a concrete type
ConcreteEntries(raw) ==
    { EntryAt(raw, m) : m \in { m \in 1..NumEntries(raw) :
                                   ~startswith(EntryAt(raw, m), "^") } }

ConcreteLinkFields(t) ==
    { n \in DOMAIN t.mandatory_links :
          ConcreteEntries(t.mandatory_links[n].str) # {} }
        \cup { n \in DOMAIN t.optional_links :
                   ConcreteEntries(t.optional_links[n].str) # {} }

SpecifierOf(t, n) ==
    IF n \in DOMAIN t.mandatory_links THEN t.mandatory_links[n].str
    ELSE t.optional_links[n].str

SchemasOf(directive) ==
    { i \in DOMAIN schemas : schemas[i].select.type_const = directive }

\* C10: the schema of a type has a network validator entry for every link
\* field whose specifier names a concrete type, constraining the linked
\* needs' type to that target, and has no network validator when all link
\* targets of the type are patterns.
C10_NetworkValidator ==
    pc = "schemas_written" =>
        \A t \in DOMAIN loaded_types :
            \A i \in SchemasOf(loaded_types[t].directive) :
                LET fields == ConcreteLinkFields(loaded_types[t])
                    v == schemas[i].validate
                IN  /\ fields = {} => ~v.has_network
                    /\ \A n \in fields :
                           /\ v.has_network
                           /\ n \in DOMAIN v.network
                           /\ v.network[n].type_const
                                  \in ConcreteEntries(SpecifierOf(loaded_types[t], n))

\* a type declares a constraint: a mandatory or optional field or link
DeclaresAny(t) ==
    \/ DOMAIN t.mandatory_options # {}
    \/ DOMAIN t.optional_options # {}
    \/ DOMAIN t.mandatory_links # {}
    \/ DOMAIN t.optional_links # {}

\* positions in the registry of the types that declare a constraint
DeclaringTypes ==
    SelectIdx(Len(loaded_types),
              [i \in DOMAIN loaded_types |-> DeclaresAny(loaded_types[i])], 1)

Emitted == pc \in {"schemas_written", "aborted"}

\* the registry type the j-th schema was built from
BuiltFrom(j) == loaded_types[DeclaringTypes[j]]

\* C11: the emitter outputs exactly one schema object for each type that
\* declares at least one mandatory/optional field or link, in type order,
\* and none for a type that declares none of them.
C11_OneSchemaPerDeclaringType ==
    Emitted =>
        /\ Len(schemas) = Len(DeclaringTypes)
        /\ \A j \in DOMAIN schemas :
               j \in DOMAIN DeclaringTypes
                   /\ schemas[j].id = <<"need-type-">> \o BuiltFrom(j).directive

\* the types an item can have
ItemTypes ==
    {loaded_types[i].directive : i \in DOMAIN loaded_types}
        \cup {<<"need-type-">> \o loaded_types[i].directive :
                 i \in DOMAIN loaded_types}

\* a selector matches an item: the item has the required properties and its
\* type is the constant
Selects(select, item) ==
    /\ \A r \in Range(select.required) : r \in DOMAIN item
    /\ "type" \in DOMAIN item => item["type"] = select.type_const

\* C12: the selector of every emitted schema requires 'type' and constrains
\* it to the directive of the type the schema was built from, so it selects
\* exactly the items of that directive and no item of another directive.
C12_SelectorMatchesDirective ==
    \A j \in DOMAIN schemas :
        /\ j \in DOMAIN DeclaringTypes
        /\ "type" \in Range(schemas[j].select.required)
        /\ schemas[j].select.type_const = BuiltFrom(j).directive
        /\ \A d \in ItemTypes :
               Selects(schemas[j].select, [type |-> d])
                   <=> d = BuiltFrom(j).directive
        /\ ~Selects(schemas[j].select, [id |-> BuiltFrom(j).directive])

C12_Witness ==
    /\ pc = "schemas_written"
    /\ Len(schemas) = 2
    /\ schemas[1].select.type_const # schemas[2].select.type_const

\* the property entry e has the shape the field name asks for, with pattern p
HasPattern(e, f, p) ==
    IF f \in {"tags", "sections"}
    THEN /\ DOMAIN e = {"type", "items"}
         /\ e.type = "array"
         /\ DOMAIN e.items = {"type", "pattern"}
         /\ e.items.type = "string"
         /\ e.items.pattern = p
    ELSE /\ DOMAIN e = {"type", "pattern"}
         /\ e.type = "string"
         /\ e.pattern = p

\* C13 as stated: in the local validator of every emitted schema every
\* mandatory field is required and has a property entry with its declared
\* pattern, every optional field has a property entry with its declared
\* pattern and is not required for being optional, and the entry is
\* array-of-pattern shaped exactly for 'tags' and 'sections'.
C13_LocalValidatorFields ==
    \A j \in DOMAIN schemas :
        j \in DOMAIN DeclaringTypes =>
            LET t == BuiltFrom(j)
                local == schemas[j].validate.local
            IN  /\ \A f \in DOMAIN t.mandatory_options :
                       /\ f \in Range(local.required)
                       /\ f \in DOMAIN local.properties
                       /\ HasPattern(local.properties[f], f,
                                     t.mandatory_options[f])
                /\ \A f \in DOMAIN t.optional_options :
                       /\ f \in DOMAIN local.properties
                       /\ HasPattern(local.properties[f], f,
                                     t.optional_options[f])
                       /\ f \in Range(local.required)
                              => f \in DOMAIN t.mandatory_options

\* C13 as amended: the field 'content' gets no entry and is never required;
\* every other mandatory field is required; every other optional field is
\* required only when it is mandatory too; the property entry of a field
\* carries the optional pattern when the type declares the field optional,
\* otherwise the mandatory pattern, array-of-pattern shaped exactly for
\* 'tags' and 'sections'.
C13_LocalValidatorFieldsButContent ==
    \A j \in DOMAIN schemas :
        j \in DOMAIN DeclaringTypes =>
            LET t == BuiltFrom(j)
                local == schemas[j].validate.local
                mo == t.mandatory_options
                oo == t.optional_options
            IN  /\ "content" \notin DOMAIN local.properties
                /\ "content" \notin Range(local.required)
                /\ \A f \in DOMAIN mo \ {"content"} :
                       /\ f \in Range(local.required)
                       /\ f \in DOMAIN local.properties
                       /\ f \notin DOMAIN oo
                              => HasPattern(local.properties[f], f, mo[f])
                /\ \A f \in DOMAIN oo \ {"content"} :
                       /\ f \in DOMAIN local.properties
                       /\ HasPattern(local.properties[f], f, oo[f])
                       /\ f \in Range(local.required) => f \in DOMAIN mo

C13_Witness ==
    /\ pc = "schemas_written"
    /\ \E j \in DOMAIN schemas :
           LET t == BuiltFrom(j)
           IN  /\ "content" \in DOMAIN t.optional_options
               /\ "tags" \in DOMAIN t.mandatory_options
               /\ "tags" \in DOMAIN t.optional_options
               /\ t.mandatory_options["tags"] # t.optional_options["tags"]
               /\ "id" \in DOMAIN schemas[j].validate.local.properties

\* the link fields of a type whose specifier has more than one '^' entry
RegexEntries(raw) ==
    { m \in 1..NumEntries(raw) : startswith(EntryAt(raw, m), "^") }

MultiRegexFields(t, links) ==
    { n \in DOMAIN t[links] : Cardinality(RegexEntries(t[links][n].str)) > 1 }

\* C20: when the specifier of a mandatory or optional link field has more
\* than one '^' entry, schema emission logs an error naming that field and
\* the need type being processed, and still completes.
C20_MultipleRegexLogged ==
    Emitted =>
        \A i \in DOMAIN loaded_types :
            \A links \in {"mandatory_links", "optional_links"} :
                \A n \in MultiRegexFields(loaded_types[i], links) :
                    /\ pc = "schemas_written"
                    /\ \E e \in DOMAIN errors :
                           /\ errors[e].field = n
                           /\ errors[e].need_type = loaded_types[i].directive

(***************************************************************************)
(* Properties of the loader                                                *)
(***************************************************************************)
DeclaredDirective(i) == data.needs_types[i][1]
Declared(i) == data.needs_types[i][2]

\* the mapping a declaration gives under key, empty when it has no such key
DeclaredDict(i, key) ==
    IF key \in Declared(i).keys THEN Declared(i)[key] ELSE <<>>

DeclaredPrefix(i) ==
    IF "prefix" \in Declared(i).keys THEN Declared(i).prefix
    ELSE DeclaredDirective(i) \o <<"_", "_">>

IdCharClass == <<"[", "0", "-", "9", "a", "-", "z", "_", "]", "+", "$">>

\* p reads ^<prefix>[0-9a-z_]+$
IsDefaultIdPattern(p, prefix) ==
    /\ Len(p) = Len(prefix) + 1 + Len(IdCharClass)
    /\ p[1] = "^"
    /\ \A j \in 1..Len(prefix) : p[j + 1] = prefix[j]
    /\ \A j \in 1..Len(IdCharClass) : p[Len(prefix) + 1 + j] = IdCharClass[j]

\* C14: every type the loader produced has an 'id' pattern among its
\* mandatory fields: the declared one, unchanged, when the declaration has an
\* explicit id pattern, otherwise ^<prefix>[0-9a-z_]+$ with the declared
\* prefix, or <directive>__ when no prefix is declared.
C14_IdPatternPresent ==
    pc # "start" =>
        /\ Len(needs_types) = Len(data.needs_types)
        /\ \A i \in DOMAIN needs_types :
               LET mo == needs_types[i].mandatory_options
                   declared == DeclaredDict(i, "mandatory_options")
               IN  /\ needs_types[i].directive = DeclaredDirective(i)
                   /\ "id" \in DOMAIN mo
                   /\ IF "id" \in DOMAIN declared
                      THEN mo["id"] = declared["id"]
                      ELSE IsDefaultIdPattern(mo["id"], DeclaredPrefix(i))

C14_Witness ==
    /\ pc = "setup"
    /\ \E i, j \in DOMAIN needs_types :
           /\ "id" \in DOMAIN DeclaredDict(i, "mandatory_options")
           /\ "id" \notin DOMAIN DeclaredDict(j, "mandatory_options")
           /\ "prefix" \notin Declared(j).keys

\* C15: after loading, every type's optional fields contain every base
\* optional field with the base pattern, also when the type declares the
\* same optional field with another pattern, and every optional field the
\* type declares that is not a base field keeps its own pattern.
C15_BaseOptionsMerged ==
    pc # "start" =>
        \A i \in DOMAIN needs_types :
            LET oo == needs_types[i].optional_options
                base == data.needs_types_base_options
                declared == DeclaredDict(i, "optional_options")
            IN  /\ \A f \in DOMAIN base : f \in DOMAIN oo /\ oo[f] = base[f]
                /\ \A f \in DOMAIN declared \ DOMAIN base :
                       f \in DOMAIN oo /\ oo[f] = declared[f]

C15_Witness ==
    /\ pc = "setup"
    /\ \E i, j \in DOMAIN needs_types :
           LET base == data.needs_types_base_options
               di == DeclaredDict(i, "optional_options")
               dj == DeclaredDict(j, "optional_options")
           IN  /\ \E f \in DOMAIN di \cap DOMAIN base : di[f] # base[f]
               /\ DOMAIN dj \ DOMAIN base # {}
               /\ DOMAIN base # {}

(***************************************************************************)
(* Properties of the source code linker setup                              *)
(***************************************************************************)
Handlers ==
    {"setup_test_code_linker", "setup_combined_linker",
     "inject_links_into_needs"}

Connections(h) ==
    Cardinality({i \in DOMAIN listeners :
                    /\ listeners[i].event = "env-updated"
                    /\ listeners[i].callback = h})

\* the setup() calls that got past the guards of setup_once
BodyRuns ==
    { i \in DOMAIN setups :
        setups[i].outcome \notin {"returned", "no_ws_root", "AssertionError"} }

\* C21: across any number of setup() calls on the same application the
\* body of setup_once takes effect at most once: once the config value
\* skip_rescanning_via_source_code_linker has been added, later calls return
\* immediately, so each env-updated handler is connected at most once.
C21_SetupOnce ==
    /\ Cardinality(BodyRuns) <= 1
    /\ \A i \in BodyRuns :
           /\ SkipOption \in config.options
           /\ \A j \in DOMAIN setups :
                  i < j => ( /\ setups[j].outcome = "returned"
                             /\ ~setups[j].generated )
    /\ \A h \in Handlers : Connections(h) <= 1
    /\ Len(listeners) <= Cardinality(Handlers)
    /\ SkipOption \notin config.options => listeners = <<>>

C21_Witness ==
    /\ Len(setups) >= 3
    /\ setups[1].outcome = "no_ws_root"
    /\ setups[2].outcome = "set_up"
    /\ setups[3].outcome = "returned"
    /\ \A h \in Handlers : Connections(h) = 1

====
